---- MODULE Spec2Model ----
(***************************************************************************)
(* Model of fable-library-rust's DateTime (src/DateTime.rs): a chrono      *)
(* NaiveDateTime tagged with a DateTimeKind, its constructors, tick and    *)
(* calendar arithmetic, kind-aware comparison and conversion.              *)
(*                                                                         *)
(* TLC integers are 32 bits wide, while the code's tick and second counts  *)
(* are i64.  Every such count is therefore held as a mixed-radix numeral   *)
(* in floor form:                                                          *)
(*   a second count  [days, secs]        = days*86400 + secs               *)
(*   a tick count    [days, secs, sub]   = (days*86400 + secs)*tps + sub   *)
(*   a chrono Duration [days, secs, nanos]                                 *)
(* with 0 <= secs < 86400, 0 <= sub < tps, 0 <= nanos < 10^9 and days any  *)
(* integer, so that every integer has exactly one numeral.                 *)
(***************************************************************************)
EXTENDS Integers, Sequences, FiniteSets, TLC

\* ------------------------------------------------------------ constants

\* TimeSpan_::ticks_per_second and TimeSpan_::nanoseconds_per_tick
ticks_per_second == 10000000
nanoseconds_per_tick == 100

SecsPerDay == 24 * 60 * 60
NanosPerSec == 1000 * 1000 * 1000

\* chrono's NaiveDate::MIN and NaiveDate::MAX years
ChronoMinYear == 0 - 262143
ChronoMaxYear == 262142

\* Rust's integer division truncates toward zero
TruncDiv(a, b) == IF a >= 0 THEN a \div b ELSE 0 - ((0 - a) \div b)

Min2(a, b) == IF a <= b THEN a ELSE b

\* ------------------------------------------------- chrono: calendar dates

\* chrono's YearFlags: the proleptic Gregorian leap-year rule
ChronoIsLeap(y) == y % 4 = 0 /\ (y % 100 # 0 \/ y % 400 = 0)

\* the month-length table of chrono's NaiveDate::diff_months
ChronoMonthDays(y) ==
    <<31, IF ChronoIsLeap(y) THEN 29 ELSE 28, 31, 30, 31, 30, 31, 31, 30, 31, 30, 31>>

\* days of the year before the first of month m
DaysBeforeMonth(y, m) ==
    LET cum == <<0, 31, 59, 90, 120, 151, 181, 212, 243, 273, 304, 334>>
    IN  cum[m] + (IF m > 2 /\ ChronoIsLeap(y) THEN 1 ELSE 0)

\* NaiveDate::from_ymd_opt(y, m, d).is_some()
ValidYmd(y, m, d) ==
    /\ y >= ChronoMinYear /\ y <= ChronoMaxYear
    /\ m >= 1 /\ m <= 12
    /\ d >= 1 /\ d <= ChronoMonthDays(y)[m]

\* Datelike::num_days_from_ce: 0001-01-01 is day 1
DaysFromCE(y, m, d) ==
    LET p == y - 1
    IN  365 * p + (p \div 4) - (p \div 100) + (p \div 400) + DaysBeforeMonth(y, m) + d

\* NaiveDate::from_num_days_from_ce_opt: the date with that day number
CivilFromDays(n) ==
    LET n0    == n - 1
        cyc   == n0 \div 146097
        r     == n0 % 146097
        c100  == Min2(r \div 36524, 3)
        r2    == r - c100 * 36524
        c4    == r2 \div 1461
        r3    == r2 % 1461
        c1    == Min2(r3 \div 365, 3)
        doy   == r3 - c1 * 365
        yy    == 1 + 400 * cyc + 100 * c100 + 4 * c4 + c1
        mm    == CHOOSE k \in 1..12 :
                    /\ DaysBeforeMonth(yy, k) <= doy
                    /\ (k = 12 \/ DaysBeforeMonth(yy, k + 1) > doy)
    IN  [y |-> yy, m |-> mm, d |-> doy - DaysBeforeMonth(yy, mm) + 1]

\* ------------------------------------------------- chrono: Duration

\* a second count as a numeral in floor form
SecsNorm(days, s) ==
    [days |-> days + (s \div SecsPerDay), secs |-> s % SecsPerDay]

\* a Duration as a numeral in floor form (chrono keeps 0 <= nanos < 10^9)
DurNorm(days, s, n) ==
    LET s2 == s + (n \div NanosPerSec)
    IN  [days  |-> days + (s2 \div SecsPerDay),
         secs  |-> s2 % SecsPerDay,
         nanos |-> n % NanosPerSec]

\* Duration::seconds(w), w a second count
DurationSeconds(w) == [days |-> w.days, secs |-> w.secs, nanos |-> 0]

\* Duration::nanoseconds(n), |n| < 2^31
DurationNanoseconds(n) == DurNorm(0, 0, n)

\* Duration + Duration, Duration - Duration, -Duration
DurAdd(a, b) == DurNorm(a.days + b.days, a.secs + b.secs, a.nanos + b.nanos)
DurSub(a, b) == DurNorm(a.days - b.days, a.secs - b.secs, a.nanos - b.nanos)
DurNeg(a) == DurNorm(0 - a.days, 0 - a.secs, 0 - a.nanos)

\* Duration::num_seconds: whole seconds, rounded toward zero
num_seconds(d) ==
    IF d.days < 0 /\ d.nanos > 0
    THEN SecsNorm(d.days, d.secs + 1)
    ELSE [days |-> d.days, secs |-> d.secs]

\* Duration::num_nanoseconds of a Duration shorter than two seconds
num_nanoseconds(d) == (d.days * SecsPerDay + d.secs) * NanosPerSec + d.nanos

\* ------------------------------------------------- chrono: NaiveDateTime

\* Option::None of a NaiveDateTime
NoneNdt == [y |-> 0, m |-> 0, d |-> 0, secs |-> 0, nanos |-> 0]

ChronoMinDay == DaysFromCE(ChronoMinYear, 1, 1)
ChronoMaxDay == DaysFromCE(ChronoMaxYear, 12, 31)

\* NaiveTime::from_hms_nano_opt(h, mi, s, nano).is_some(); a nano of 10^9 or
\* more is chrono's leap-second representation, accepted only with s = 59
ValidHmsNano(h, mi, s, nano) ==
    /\ h >= 0 /\ h < 24 /\ mi >= 0 /\ mi < 60 /\ s >= 0 /\ s < 60
    /\ nano >= 0
    /\ ~ ((nano >= NanosPerSec /\ s # 59) \/ nano >= 2 * NanosPerSec)

\* NaiveDate::from_ymd_opt(y, m, d) then and_hms_nano_opt(h, mi, s, nano)
NdtOfFields(y, m, d, h, mi, s, nano) ==
    IF ValidYmd(y, m, d) /\ ValidHmsNano(h, mi, s, nano)
    THEN [y |-> y, m |-> m, d |-> d, secs |-> h * 3600 + mi * 60 + s, nanos |-> nano]
    ELSE NoneNdt

\* NaiveDateTime::checked_add_signed
checked_add_signed(ndt, dur) ==
    LET n    == ndt.nanos + dur.nanos
        s    == ndt.secs + dur.secs + (n \div NanosPerSec)
        days == DaysFromCE(ndt.y, ndt.m, ndt.d) + dur.days + (s \div SecsPerDay)
        date == CivilFromDays(days)
    IN  IF days < ChronoMinDay \/ days > ChronoMaxDay
        THEN NoneNdt
        ELSE [y |-> date.y, m |-> date.m, d |-> date.d,
              secs |-> s % SecsPerDay, nanos |-> n % NanosPerSec]

\* NaiveDateTime::checked_sub_signed
checked_sub_signed(ndt, dur) == checked_add_signed(ndt, DurNeg(dur))

\* NaiveDateTime - NaiveDateTime (signed_duration_since)
signed_duration_since(a, b) ==
    DurNorm(DaysFromCE(a.y, a.m, a.d) - DaysFromCE(b.y, b.m, b.d),
            a.secs - b.secs, a.nanos - b.nanos)

\* the derived ordering of NaiveDateTime: -1, 0 or 1
NdtCmp(a, b) ==
    LET ka == <<a.y, a.m, a.d, a.secs, a.nanos>>
        kb == <<b.y, b.m, b.d, b.secs, b.nanos>>
        df == {i \in 1..5 : ka[i] # kb[i]}
    IN  IF df = {} THEN 0
        ELSE LET i == CHOOSE j \in df : \A k \in df : j <= k
             IN  IF ka[i] < kb[i] THEN 0 - 1 ELSE 1

\* NaiveDate::diff_months behind checked_add_months / checked_sub_months:
\* the month index is shifted and the day clamped to the new month's length
diff_months(ndt, months) ==
    LET idx  == ndt.y * 12 + ndt.m - 1 + months
        yy   == idx \div 12
        mm   == (idx % 12) + 1
        dmax == ChronoMonthDays(yy)[mm]
        dd   == IF ndt.d > dmax THEN dmax ELSE ndt.d
    IN  IF ValidYmd(yy, mm, dd)
        THEN [y |-> yy, m |-> mm, d |-> dd, secs |-> ndt.secs, nanos |-> ndt.nanos]
        ELSE NoneNdt

\* ------------------------------------------------- tick counts (i64)

TickZero == [days |-> 0, secs |-> 0, sub |-> 0]

\* seconds * ticks_per_second + r for a second count and |r| < ticks_per_second
TicksOf(w, r) ==
    LET s == w.secs + (r \div ticks_per_second)
    IN  [days |-> w.days + (s \div SecsPerDay),
         secs |-> s % SecsPerDay,
         sub  |-> r % ticks_per_second]

\* -ticks
TicksNeg(t) == TicksOf(SecsNorm(0 - t.days, 0 - t.secs), 0 - t.sub)

\* ticks < 0, and the order of two tick counts
TicksNegative(t) == t.days < 0
TicksLess(a, b) ==
    \/ a.days < b.days
    \/ a.days = b.days /\ a.secs < b.secs
    \/ a.days = b.days /\ a.secs = b.secs /\ a.sub < b.sub

\* ticks / ticks_per_second and ticks % ticks_per_second, truncating as Rust does
TicksDivTps(t) ==
    IF TicksNegative(t) /\ t.sub > 0
    THEN SecsNorm(t.days, t.secs + 1)
    ELSE [days |-> t.days, secs |-> t.secs]
TicksRemTps(t) ==
    IF TicksNegative(t) /\ t.sub > 0 THEN t.sub - ticks_per_second ELSE t.sub

ticks_to_duration(ticks) ==
    LET seconds   == TicksDivTps(ticks)
        subsecond == TicksRemTps(ticks)
        d1        == DurationSeconds(seconds)
        d2        == DurationNanoseconds(subsecond * nanoseconds_per_tick)
    IN  DurAdd(d1, d2)

\* a duration_to_ticks that keeps the whole seconds and loses the sub-second part
duration_to_ticks_whole(d) == TicksOf(num_seconds(d), 0)

duration_to_ticks(d) ==
    LET seconds   == num_seconds(d)
        subsecond == DurSub(d, DurationSeconds(seconds))
        ns        == num_nanoseconds(subsecond)
    IN  TicksOf(seconds, TruncDiv(ns, nanoseconds_per_tick))

\* ------------------------------------------------- state

VARIABLES
    off,      \* the host's local UTC offset in seconds, east positive
    calls,    \* the chain of value-producing calls, each made on the result before it
    query     \* the last value-consuming call (equals, compareTo, subtract2, ticks, fields)

vars == <<off, calls, query>>

\* ------------------------------------------------- DateTime

\* a call that panicked returns no DateTime
Panicked == [ndt |-> NoneNdt, kind |-> "Panic"]
IsPanic(x) == x.kind = "Panic"

new(ndt, k) == [ndt |-> ndt, kind |-> k]

\* Option::unwrap of a NaiveDateTime, then DateTime::new
NewUnwrap(ndt, k) == IF ndt = NoneNdt THEN Panicked ELSE new(ndt, k)

new_kind(ndt, k) ==
    CASE k = 0 -> new(ndt, "Unspecified")
      [] k = 1 -> new(ndt, "Utc")
      [] k = 2 -> new(ndt, "Local")
      [] OTHER -> Panicked

specifyKind(dt, k) == new_kind(dt.ndt, k)

minValue == new(NdtOfFields(1, 1, 1, 0, 0, 0, 0), "Utc")

maxValue ==
    LET d   == ticks_to_duration([days |-> 0, secs |-> 0, sub |-> 1])
        ndt == checked_sub_signed(NdtOfFields(10000, 1, 1, 0, 0, 0, 0), d)
    IN  new(ndt, "Utc")

add(self, ts) ==
    LET d == ticks_to_duration(ts)
    IN  NewUnwrap(checked_add_signed(self.ndt, d), self.kind)

subtract(self, ts) ==
    LET d == ticks_to_duration(ts)
    IN  NewUnwrap(checked_sub_signed(self.ndt, d), self.kind)

addTicks(self, t) == add(self, t)

new_ticks(t) == add(minValue, t)

new_ymd(y, m, d) == NewUnwrap(NdtOfFields(y, m, d, 0, 0, 0, 0), "Unspecified")

new_ymdhms(y, m, d, h, mins, secs) ==
    NewUnwrap(NdtOfFields(y, m, d, h, mins, secs, 0), "Unspecified")

new_ymdhms_kind(y, m, d, h, mins, secs, k) ==
    LET dt == new_ymdhms(y, m, d, h, mins, secs)
    IN  IF IsPanic(dt) THEN Panicked ELSE specifyKind(dt, k)

\* and_hms_milli_opt: milli as u32, times 10^6 with checked_mul
MilliToNano(millis) ==
    IF millis < 0 \/ millis >= 2000 THEN 0 - 1 ELSE millis * 1000000

\* and_hms_micro_opt: micro as u32, times 10^3 with checked_mul
MicroToNano(micro) ==
    IF micro < 0 \/ micro >= 2000000 THEN 0 - 1 ELSE micro * 1000

\* a new_ymdhms_milli that hands its millis to and_hms_micro_opt
new_ymdhms_milli_as_micro(y, m, d, h, mins, secs, millis) ==
    NewUnwrap(NdtOfFields(y, m, d, h, mins, secs, MicroToNano(millis)), "Unspecified")

new_ymdhms_milli(y, m, d, h, mins, secs, millis) ==
    NewUnwrap(NdtOfFields(y, m, d, h, mins, secs, MilliToNano(millis)), "Unspecified")

new_ymdhms_micro(y, m, d, h, mins, secs, millis, micros) ==
    NewUnwrap(NdtOfFields(y, m, d, h, mins, secs, MicroToNano(millis * 1000 + micros)),
              "Unspecified")

daysInMonth(yy, mm) ==
    LET year2  == IF mm = 12 THEN yy + 1 ELSE yy
        month2 == IF mm = 12 THEN 1 ELSE mm + 1
    IN  DaysFromCE(year2, month2, 1) - DaysFromCE(yy, mm, 1)

isLeapYear(yy) == daysInMonth(yy, 2) = 29

\* today() on a host whose Utc::now() falls on the date cdt
today(cdt) == new_ymdhms_kind(cdt.y, cdt.m, cdt.d, 0, 0, 0, 1)

\* the host zone Local, of constant offset off
LocalOffset == DurNorm(0, off, 0)

\* Local.from_local_datetime(ndt).unwrap(): the instant, as its UTC NaiveDateTime
Local_from_local_datetime(ndt) ==
    [datetime |-> checked_sub_signed(ndt, LocalOffset), offset |-> off]

\* Local.from_utc_datetime(ndt).naive_local()
Local_from_utc_naive_local(ndt) == checked_add_signed(ndt, LocalOffset)

\* Utc.from_utc_datetime(ndt) and Utc.from_local_datetime(ndt).unwrap(): the zone
\* Utc has offset zero, so local and UTC readings coincide
Utc_from_utc_datetime(ndt) == [datetime |-> ndt, offset |-> 0]
Utc_from_local_datetime(ndt) == [datetime |-> ndt, offset |-> 0]

\* a get_cdt_with_offset that reads every kind as UTC
get_cdt_ignoring_kind(self) == Utc_from_utc_datetime(self.ndt)

get_cdt_with_offset(self) ==
    CASE self.kind = "Utc"         -> Utc_from_utc_datetime(self.ndt)
      [] self.kind = "Local"       -> Local_from_local_datetime(self.ndt)
      [] self.kind = "Unspecified" -> Utc_from_utc_datetime(self.ndt)

\* PartialEq and PartialOrd of chrono's DateTime compare the UTC instants
equals(x, y) == get_cdt_with_offset(x).datetime = get_cdt_with_offset(y).datetime

compareTo(x, y) ==
    NdtCmp(get_cdt_with_offset(x).datetime, get_cdt_with_offset(y).datetime)

subtract2(self, other) ==
    LET x == get_cdt_with_offset(self)
        y == get_cdt_with_offset(other)
    IN  duration_to_ticks(signed_duration_since(x.datetime, y.datetime))

toLocalTime(self) ==
    LET ndt == CASE self.kind = "Utc"         -> Local_from_utc_naive_local(self.ndt)
                 [] self.kind = "Local"       -> self.ndt
                 [] self.kind = "Unspecified" -> Local_from_utc_naive_local(self.ndt)
    IN  NewUnwrap(ndt, "Local")

toUniversalTime(self) ==
    LET ndt == CASE self.kind = "Utc"         -> self.ndt
                 [] self.kind = "Local"       -> Utc_from_local_datetime(self.ndt).datetime
                 [] self.kind = "Unspecified" -> Utc_from_local_datetime(self.ndt).datetime
    IN  new(ndt, "Utc")

ticks(self) ==
    LET x == toUniversalTime(self)
        y == minValue
    IN  duration_to_ticks(signed_duration_since(x.ndt, y.ndt))

\* checked_add_months / checked_sub_months return self for Months::new(0)
checked_add_months(ndt, n) == IF n = 0 THEN ndt ELSE diff_months(ndt, n)
checked_sub_months(ndt, n) == IF n = 0 THEN ndt ELSE diff_months(ndt, 0 - n)

\* an addMonths whose negative branch adds instead of subtracting
addMonths_forward(self, months) ==
    NewUnwrap(checked_add_months(self.ndt, IF months < 0 THEN 0 - months ELSE months),
              self.kind)

addMonths(self, months) ==
    LET ndt == IF months < 0
               THEN checked_sub_months(self.ndt, 0 - months)
               ELSE checked_add_months(self.ndt, months)
    IN  NewUnwrap(ndt, self.kind)

addYears(self, years) == addMonths(self, years * 12)

kind(self) ==
    CASE self.kind = "Unspecified" -> 0
      [] self.kind = "Utc"         -> 1
      [] self.kind = "Local"       -> 2

year(self) == self.ndt.y
month(self) == self.ndt.m
day(self) == self.ndt.d
hour(self) == self.ndt.secs \div 3600
minute(self) == (self.ndt.secs \div 60) % 60
second(self) == self.ndt.secs % 60
millisecond(self) == self.ndt.nanos \div 1000000
microsecond(self) == self.ndt.nanos \div 1000

\* ------------------------------------------------- inputs

\* the longest chain of calls made on one constructed value
MaxSteps == 2

\* host offsets: west, none, east with a half hour
Offsets == {0 - 18000, 0, 19800}

Tk(dd, ss, tt) == [days |-> dd, secs |-> ss, sub |-> tt]
OneTick == Tk(0, 0, 1)
MaxTicks == ticks(maxValue)

\* <<y, m, d>>; 2023-02-29 is no date, years 0 and 10000 are dates of chrono
YmdInputs == {<<1, 1, 1>>, <<2023, 1, 31>>, <<2023, 2, 29>>, <<0, 12, 31>>, <<10000, 1, 1>>}
\* <<y, m, d, h, mins, secs>>; hour 24 is no time
YmdhmsInputs == {<<2024, 2, 29, 23, 59, 59>>, <<2023, 3, 31, 24, 0, 0>>}
YmdhmsKindInputs == {<<2023, 1, 31, 12, 30, 45>>, <<9999, 12, 31, 23, 59, 59>>}
KindInputs == {1, 2}
\* <<y, m, d, h, mins, secs, millis>>
MilliInputs == {<<2023, 12, 31, 23, 59, 58, 999>>, <<2023, 1, 15, 0, 0, 0, 1000>>}
\* <<y, m, d, h, mins, secs, millis, micros>>
MicroInputs == {<<2024, 1, 31, 1, 2, 3, 7, 5>>}
TickInputs ==
    {TickZero, OneTick, TicksNeg(OneTick), Tk(738425, 45045, 1234567),
     MaxTicks, Tk(MaxTicks.days + 1, 0, 0)}
NowDates == {[y |-> 2026, m |-> 11, d |-> 4], [y |-> 2024, m |-> 2, d |-> 29]}

AddInputs == {OneTick, TicksNeg(Tk(0, 1, 5000001)), Tk(1, 3600, 0)}
SubtractInputs == {OneTick, Tk(40, 0, 5)}
AddTicksInputs == {TicksNeg(OneTick)}
MonthInputs == {0 - 13, 0 - 1, 0, 1, 12}
YearInputs == {0 - 1, 1}
SpecifyKindInputs == {0, 1, 2, 3}

\* wide products of fields for the construct-then-decompose checks; with
\* second 59 a sub-second part of 1000 ms is chrono's leap second
FieldDates == {<<1, 1, 1>>, <<2023, 1, 31>>, <<2024, 2, 29>>, <<9999, 12, 31>>, <<2023, 2, 29>>}
FieldTimes == {<<0, 0, 0>>, <<12, 30, 45>>, <<23, 59, 59>>, <<24, 0, 0>>}
FieldSubs == {0, 7, 999, 1000}
FieldMilliInputs == {dd \o tt \o <<ms>> : dd \in FieldDates, tt \in FieldTimes, ms \in FieldSubs}
FieldMicroInputs ==
    {dd \o tt \o <<ms, us>> : dd \in FieldDates, tt \in FieldTimes,
                              ms \in FieldSubs, us \in FieldSubs}

\* ------------------------------------------------- operations

NoQuery == [op |-> "none"]

Cur == calls[Len(calls)].res

\* a constructor starts the chain
Start(op, arg, res) ==
    /\ calls' = <<[op |-> op, arg |-> arg, res |-> res]>>
    /\ query' = NoQuery
    /\ UNCHANGED off

\* a call on the current value that returns a DateTime (or panics)
Then(op, arg, res) ==
    /\ calls' = Append(calls, [op |-> op, arg |-> arg, res |-> res])
    /\ query' = NoQuery
    /\ UNCHANGED off

\* a call on the current value that returns something else
Ask(op, i, out) ==
    /\ query' = [op |-> op, other |-> i, out |-> out]
    /\ UNCHANGED <<off, calls>>

\* nothing is constructed yet; a panic ends the program
CanStart == Len(calls) = 0
CanCall == Len(calls) >= 1 /\ Len(calls) <= MaxSteps /\ ~IsPanic(Cur)
CanAsk == Len(calls) >= 1 /\ ~IsPanic(Cur)

\* the second operand of a binary call: the current value or the one before it
Others == {i \in {Len(calls) - 1, Len(calls)} : i >= 1}

MinValue == CanStart /\ Start("minValue", <<>>, minValue)

MaxValue == CanStart /\ Start("maxValue", <<>>, maxValue)

NewYmd(F) == CanStart /\ \E f \in F : Start("new_ymd", f, new_ymd(f[1], f[2], f[3]))

NewYmdhms(F) ==
    /\ CanStart
    /\ \E f \in F :
        Start("new_ymdhms", f, new_ymdhms(f[1], f[2], f[3], f[4], f[5], f[6]))

NewYmdhmsKind(F, K) ==
    /\ CanStart
    /\ \E f \in F, k \in K :
        Start("new_ymdhms_kind", f \o <<k>>,
              new_ymdhms_kind(f[1], f[2], f[3], f[4], f[5], f[6], k))

NewYmdhmsMilli(F) ==
    /\ CanStart
    /\ \E f \in F :
        Start("new_ymdhms_milli", f,
              new_ymdhms_milli(f[1], f[2], f[3], f[4], f[5], f[6], f[7]))

NewYmdhmsMicro(F) ==
    /\ CanStart
    /\ \E f \in F :
        Start("new_ymdhms_micro", f,
              new_ymdhms_micro(f[1], f[2], f[3], f[4], f[5], f[6], f[7], f[8]))

NewTicks == CanStart /\ \E t \in TickInputs : Start("new_ticks", t, new_ticks(t))

Today == CanStart /\ \E cdt \in NowDates : Start("today", cdt, today(cdt))

SpecifyKind ==
    /\ CanCall
    /\ \E k \in SpecifyKindInputs : Then("specifyKind", k, specifyKind(Cur, k))

Add == CanCall /\ \E t \in AddInputs : Then("add", t, add(Cur, t))

Subtract == CanCall /\ \E t \in SubtractInputs : Then("subtract", t, subtract(Cur, t))

AddTicks == CanCall /\ \E t \in AddTicksInputs : Then("addTicks", t, addTicks(Cur, t))

AddMonths == CanCall /\ \E n \in MonthInputs : Then("addMonths", n, addMonths(Cur, n))

AddYears == CanCall /\ \E n \in YearInputs : Then("addYears", n, addYears(Cur, n))

ToLocalTime == CanCall /\ Then("toLocalTime", <<>>, toLocalTime(Cur))

ToUniversalTime == CanCall /\ Then("toUniversalTime", <<>>, toUniversalTime(Cur))

Equals == CanAsk /\ \E i \in Others : Ask("equals", i, equals(Cur, calls[i].res))

CompareTo == CanAsk /\ \E i \in Others : Ask("compareTo", i, compareTo(Cur, calls[i].res))

Subtract2 == CanAsk /\ \E i \in Others : Ask("subtract2", i, subtract2(Cur, calls[i].res))

Ticks == CanAsk /\ Ask("ticks", 0, ticks(Cur))

Year == CanAsk /\ Ask("year", 0, year(Cur))
Month == CanAsk /\ Ask("month", 0, month(Cur))
Day == CanAsk /\ Ask("day", 0, day(Cur))
Hour == CanAsk /\ Ask("hour", 0, hour(Cur))
Minute == CanAsk /\ Ask("minute", 0, minute(Cur))
Second == CanAsk /\ Ask("second", 0, second(Cur))
Millisecond == CanAsk /\ Ask("millisecond", 0, millisecond(Cur))
Microsecond == CanAsk /\ Ask("microsecond", 0, microsecond(Cur))

\* the program has built no value yet; the host's offset is fixed for the run
Init ==
    /\ off \in Offsets
    /\ calls = <<>>
    /\ query = NoQuery

\* chains of construction and of tick and calendar arithmetic
Next ==
    \/ MinValue
    \/ MaxValue
    \/ NewYmd(YmdInputs)
    \/ NewYmdhms(YmdhmsInputs)
    \/ NewYmdhmsKind(YmdhmsKindInputs, KindInputs)
    \/ NewYmdhmsMilli(MilliInputs)
    \/ NewYmdhmsMicro(MicroInputs)
    \/ NewTicks
    \/ Add
    \/ Subtract
    \/ AddTicks
    \/ AddMonths
    \/ AddYears
    \/ Subtract2
    \/ Ticks

Spec == Init /\ [][Next]_vars

\* chains of construction, kind changes and conversions, then comparison
KindNext ==
    \/ MinValue
    \/ MaxValue
    \/ NewYmd(YmdInputs)
    \/ NewYmdhmsKind(YmdhmsKindInputs, KindInputs)
    \/ NewYmdhmsMilli(MilliInputs)
    \/ Today
    \/ SpecifyKind
    \/ ToLocalTime
    \/ ToUniversalTime
    \/ Equals
    \/ CompareTo
    \/ Ticks

KindSpec == Init /\ [][KindNext]_vars

\* construction from fields, then decomposition by the accessors
FieldNext ==
    \/ NewYmdhmsMilli(FieldMilliInputs)
    \/ NewYmdhmsMicro(FieldMicroInputs)
    \/ Year
    \/ Month
    \/ Day
    \/ Hour
    \/ Minute
    \/ Second
    \/ Millisecond
    \/ Microsecond

FieldSpec == Init /\ [][FieldNext]_vars

\* ------------------------------------------------- properties

Last == calls[Len(calls)]

\* the naive instant lies in [0001-01-01 00:00:00.0000000, 9999-12-31 23:59:59.9999999]
InRange(ndt) == ndt.y >= 1 /\ ndt.y <= 9999

IsDate(ndt, yy, mm, dd) == ndt.y = yy /\ ndt.m = mm /\ ndt.d = dd

RangeOps ==
    {"new_ymd", "new_ymdhms", "new_ymdhms_milli", "new_ymdhms_micro", "new_ticks",
     "minValue", "maxValue", "add", "subtract", "addTicks", "addMonths", "addYears"}

\* C1: every value the constructors and the tick and month arithmetic return
\* has its naive instant within years 1..9999.
C1_AlwaysInRange ==
    \A i \in 1..Len(calls) :
        (calls[i].op \in RangeOps /\ ~IsPanic(calls[i].res)) => InRange(calls[i].res.ndt)

\* C2: add, subtract and new_ticks fail when the result leaves
\* [minValue, maxValue]; new_ticks fails for t < 0 and for t > maxValue().ticks();
\* minValue().ticks() is 0.
C2_OutOfRangeFails ==
    /\ \A i \in 1..Len(calls) :
        /\ (calls[i].op \in {"add", "subtract", "new_ticks"} /\ ~IsPanic(calls[i].res))
              => InRange(calls[i].res.ndt)
        /\ (/\ calls[i].op = "new_ticks"
            /\ (TicksNegative(calls[i].arg) \/ TicksLess(MaxTicks, calls[i].arg)))
              => IsPanic(calls[i].res)
    /\ (query.op = "ticks" /\ Cur = minValue) => query.out = TickZero

\* the absolute instant of a value, <<day number, second of day, nanosecond>>:
\* the naive instant read at offset zero for Utc and Unspecified, at the host's
\* offset for Local
Instant(x) ==
    LET s == x.ndt.secs - (IF x.kind = "Local" THEN off ELSE 0)
    IN  <<DaysFromCE(x.ndt.y, x.ndt.m, x.ndt.d) + (s \div SecsPerDay),
          s % SecsPerDay, x.ndt.nanos>>

InstantLess(a, b) ==
    \/ a[1] < b[1]
    \/ a[1] = b[1] /\ a[2] < b[2]
    \/ a[1] = b[1] /\ a[2] = b[2] /\ a[3] < b[3]

\* C3: with the same naive instant, a Utc and an Unspecified value are equal and
\* compare as 0, and under a nonzero host offset a Local and a Utc value are
\* unequal; equals and compareTo decide on the resolved instants.
C3_KindAwareEquality ==
    (query.op \in {"equals", "compareTo"}) =>
        LET x  == Cur
            y  == calls[query.other].res
            eq == IF query.op = "equals" THEN query.out ELSE query.out = 0
        IN  /\ (x.ndt = y.ndt /\ {x.kind, y.kind} = {"Utc", "Unspecified"}) => eq
            /\ (x.ndt = y.ndt /\ off # 0 /\ {x.kind, y.kind} = {"Utc", "Local"}) => ~eq
            /\ eq <=> (Instant(x) = Instant(y))
            /\ (query.op = "compareTo") =>
                  /\ query.out < 0 <=> InstantLess(Instant(x), Instant(y))
                  /\ query.out > 0 <=> InstantLess(Instant(y), Instant(x))

C3_Witness ==
    /\ Len(calls) >= 2
    /\ off # 0
    /\ Last.op = "specifyKind"
    /\ Cur.kind = "Local"
    /\ calls[Len(calls) - 1].res.kind = "Utc"
    /\ query.op = "equals"
    /\ query.other = Len(calls) - 1
    /\ query.out = FALSE

\* C4: toUniversalTime returns kind Utc; the naive instant is unchanged for a
\* Utc input and is the input's minus the host offset for Local and Unspecified.
C4_ToUniversalTime ==
    \A i \in 2..Len(calls) :
        (calls[i].op = "toUniversalTime" /\ InRange(calls[i - 1].res.ndt)) =>
            LET v == calls[i - 1].res
                r == calls[i].res
            IN  /\ r.kind = "Utc"
                /\ r.ndt = IF v.kind = "Utc"
                           THEN v.ndt
                           ELSE checked_sub_signed(v.ndt, LocalOffset)

\* C5: for a Local value v, v.toUniversalTime().toLocalTime() is Local and has
\* v's naive instant.
C5_LocalRoundTrip ==
    \A i \in 3..Len(calls) :
        (/\ calls[i].op = "toLocalTime"
         /\ calls[i - 1].op = "toUniversalTime"
         /\ calls[i - 2].res.kind = "Local"
         /\ InRange(calls[i - 2].res.ndt))
            => /\ calls[i].res.kind = "Local"
               /\ calls[i].res.ndt = calls[i - 2].res.ndt

\* r is v moved n calendar months: the month n months from v's, the day clamped
\* to that month's length, time of day and kind kept; said only when the
\* destination month is within years 1..9999
MonthShift(v, n, r) ==
    LET idx == year(v) * 12 + month(v) - 1 + n
        yy  == idx \div 12
        mm  == (idx % 12) + 1
    IN  (yy >= 1 /\ yy <= 9999) =>
            /\ ~IsPanic(r)
            /\ year(r) = yy
            /\ month(r) = mm
            /\ day(r) = Min2(day(v), daysInMonth(yy, mm))
            /\ r.ndt.secs = v.ndt.secs
            /\ r.ndt.nanos = v.ndt.nanos
            /\ r.kind = v.kind

\* C6: addMonths(n) lands in the month n months away with the day clamped to
\* that month's length, time and kind unchanged; 2023-01-31 plus one month is
\* 2023-02-28; addYears(n) is the shift by 12*n months.
C6_AddMonthsClamps ==
    \A i \in 2..Len(calls) :
        LET v == calls[i - 1].res
            r == calls[i].res
        IN  /\ (calls[i].op = "addMonths") => MonthShift(v, calls[i].arg, r)
            /\ (calls[i].op = "addYears") => MonthShift(v, 12 * calls[i].arg, r)
            /\ (calls[i].op = "addMonths" /\ calls[i].arg = 1 /\ IsDate(v.ndt, 2023, 1, 31))
                  => IsDate(r.ndt, 2023, 2, 28)

C6_Witness ==
    /\ Len(calls) >= 2
    /\ Last.op = "addMonths"
    /\ Last.arg = 0 - 13
    /\ IsDate(calls[Len(calls) - 1].res.ndt, 2023, 12, 31)
    /\ IsDate(Cur.ndt, 2022, 11, 30)

C8_TodayIsLocalMidnight ==
    (Len(calls) >= 1 /\ calls[1].op = "today") =>
        LET r   == calls[1].res
            cdt == calls[1].arg
        IN  /\ r.kind = "Local"
            /\ IsDate(r.ndt, cdt.y, cdt.m, cdt.d)
            /\ r.ndt.secs = 0
            /\ r.ndt.nanos = 0

\* fields <<y, m, d, h, mins, secs, millis>> that name a date and time of
\* years 1..9999
ValidFields(f) ==
    /\ f[1] >= 1 /\ f[1] <= 9999
    /\ f[2] >= 1 /\ f[2] <= 12
    /\ f[3] >= 1 /\ f[3] <= daysInMonth(f[1], f[2])
    /\ f[4] >= 0 /\ f[4] <= 23
    /\ f[5] >= 0 /\ f[5] <= 59
    /\ f[6] >= 0 /\ f[6] <= 59
    /\ f[7] >= 0 /\ f[7] <= 999

FieldIndex(op) ==
    CASE op = "year" -> 1
      [] op = "month" -> 2
      [] op = "day" -> 3
      [] op = "hour" -> 4
      [] op = "minute" -> 5
      [] op = "second" -> 6
      [] op = "millisecond" -> 7

\* C9: a value built by new_ymdhms_milli from valid fields gives those fields
\* back through year, month, day, hour, minute, second and millisecond.
C9_FieldsRoundTrip ==
    (/\ Len(calls) >= 1
     /\ calls[1].op = "new_ymdhms_milli"
     /\ ValidFields(calls[1].arg))
        => /\ ~IsPanic(calls[1].res)
           /\ (query.op \in {"year", "month", "day", "hour", "minute", "second",
                             "millisecond"})
                 => query.out = calls[1].arg[FieldIndex(query.op)]

C9_Witness ==
    /\ Len(calls) = 1
    /\ calls[1].op = "new_ymdhms_milli"
    /\ calls[1].arg = <<2024, 2, 29, 23, 59, 59, 999>>
    /\ query.op = "millisecond"
    /\ query.out = 999

\* C10: a value built by new_ymdhms_micro from valid fields gives millis back
\* through millisecond() and micros (0..999) back through microsecond().
C10_MicroFields ==
    (/\ Len(calls) >= 1
     /\ calls[1].op = "new_ymdhms_micro"
     /\ ValidFields(SubSeq(calls[1].arg, 1, 7))
     /\ calls[1].arg[8] >= 0 /\ calls[1].arg[8] <= 999)
        => /\ ~IsPanic(calls[1].res)
           /\ (query.op = "millisecond") => query.out = calls[1].arg[7]
           /\ (query.op = "microsecond") => query.out = calls[1].arg[8]

====
